---- MODULE Spec2Model ----
(***************************************************************************)
(* Model of gsplat/project_gaussians.py: the two projection entry points,  *)
(* the covariance packing, and the autograd function _ProjectGaussians     *)
(* (forward saving a context, backward restoring it).                      *)
(*                                                                         *)
(* Tensors are records [shape, data, requires_grad]; data is the flat      *)
(* (contiguous, row-major) storage.  The CUDA kernels are uninterpreted:   *)
(* each output is a term naming the kernel output and the exact argument   *)
(* tuple the kernel was called with.                                       *)
(***************************************************************************)
EXTENDS Integers, Sequences, FiniteSets, TLC

VARIABLES
    call,      \* one call of an entry point: its inputs, then its outcome
    ctxs,      \* the autograd contexts alive, in creation order
    fwdLog,    \* history: what each forward invocation received and produced
    bwd,       \* the last backward pass: its inputs, kernel call and result
    packIn,    \* the covariance tensor handed to pack_cov3d_triu
    packOut    \* what pack_cov3d_triu returned for it

vars == <<call, ctxs, fwdLog, bwd, packIn, packOut>>

----------------------------------------------------------------------------
(* Bounds of the model *)

MaxRank == 2      \* means3d has 0..MaxRank dimensions
MaxDim == 3       \* each dimension is 0..MaxDim
MaxPoints == 2    \* quaternion / scale batches hold 1..MaxPoints primitives
MaxEntry == 1     \* covariance entries are 0..MaxEntry in the packing runs
MaxCtx == 2       \* forward invocations kept alive for a later backward
MaxGrad == 1      \* each incoming gradient is one of 0..MaxGrad

(* Program constants *)

BlockWidthLow == 1          \* block_width > 1
BlockWidthHigh == 16        \* block_width <= 16
FixedOne == 10000000        \* 1.0, in units of 1e-7
QuatTol == 10               \* 1e-6, in units of 1e-7

----------------------------------------------------------------------------
(* Tensors *)

Tensor(shape, data, rg) == [shape |-> shape, data |-> data, requires_grad |-> rg]

RECURSIVE NumEl(_)
NumEl(shape) == IF shape = <<>> THEN 1 ELSE Head(shape) * NumEl(Tail(shape))

\* Python's shape[-k]; only evaluated where the index exists
DimFromEnd(shape, k) == shape[Len(shape) - k + 1]

None == [none |-> TRUE]

\* torch.zeros_like
zeros_like(t) == Tensor(t.shape, [i \in 1..NumEl(t.shape) |-> 0], FALSE)

\* Tensor.contiguous(): same shape, values and autograd flag, row-major storage
contiguous(t) == t

----------------------------------------------------------------------------
(* pack_cov3d_triu *)

\* cov3d[..., i, j] of the k-th matrix of the batch (k from 1; i, j from 0)
At(cov3d, k, i, j) == cov3d.data[9 * (k - 1) + 3 * i + j + 1]

BatchOf(cov3d) == NumEl(cov3d.shape) \div 9

\* torch.stack(entries, dim=-1) of per-matrix entries picked at `index`
StackEntries(cov3d, index) ==
    Tensor(SubSeq(cov3d.shape, 1, Len(cov3d.shape) - 2) \o <<Len(index)>>,
           [n \in 1..(BatchOf(cov3d) * Len(index)) |->
               LET k == ((n - 1) \div Len(index)) + 1
                   c == ((n - 1) % Len(index)) + 1
               IN  At(cov3d, k, index[c][1], index[c][2])],
           cov3d.requires_grad)

\* cov_xx, cov_xy, cov_xz, cov_yy, cov_yz, cov_zz
TriuIndex == << <<0, 0>>, <<0, 1>>, <<0, 2>>, <<1, 1>>, <<1, 2>>, <<2, 2>> >>

\* a slip: the off-diagonal entries read from below the diagonal
pack_cov3d_tril(cov3d) ==
    StackEntries(cov3d, << <<0, 0>>, <<1, 0>>, <<2, 0>>, <<1, 1>>, <<2, 1>>, <<2, 2>> >>)

pack_cov3d_triu(cov3d) == StackEntries(cov3d, TriuIndex)

----------------------------------------------------------------------------
(* scale_rot_to_cov3d: global_scale^2 * R * diag(scale^2) * R^T *)

\* rotation matrix of the direction d = (w, x, y, z) of a quaternion
QuatToRotmat(d) ==
    LET w == d[1]  x == d[2]  y == d[3]  z == d[4]
        n2 == w * w + x * x + y * y + z * z
    IN  IF n2 = 0
        THEN << <<1, 0, 0>>, <<0, 1, 0>>, <<0, 0, 1>> >>
        ELSE << << (n2 - 2 * (y * y + z * z)) \div n2, (2 * (x * y - w * z)) \div n2,
                   (2 * (x * z + w * y)) \div n2 >>,
                << (2 * (x * y + w * z)) \div n2, (n2 - 2 * (x * x + z * z)) \div n2,
                   (2 * (y * z - w * x)) \div n2 >>,
                << (2 * (x * z - w * y)) \div n2, (2 * (y * z + w * x)) \div n2,
                   (n2 - 2 * (x * x + y * y)) \div n2 >> >>

\* (R diag(s^2) R^T)[i][j] * g^2
CovEntry(R, s, g, i, j) ==
    g * g * (R[i][1] * s[1] * s[1] * R[j][1] + R[i][2] * s[2] * s[2] * R[j][2]
             + R[i][3] * s[3] * s[3] * R[j][3])

scale_rot_to_cov3d(scales, glob_scale, quats) ==
    LET n == Len(quats.data)
    IN  Tensor(<<n, 3, 3>>,
               [m \in 1..(9 * n) |->
                   LET k == ((m - 1) \div 9) + 1
                       i == (((m - 1) % 9) \div 3) + 1
                       j == ((m - 1) % 3) + 1
                   IN  CovEntry(QuatToRotmat(quats.data[k].d),
                                SubSeq(scales.data, 3 * (k - 1) + 1, 3 * k),
                                glob_scale, i, j)],
               FALSE)

----------------------------------------------------------------------------
(* The CUDA kernels, uninterpreted *)

KernelOut(name, args) == [kernel_output |-> name, args |-> args]

\* _C.project_gaussians_forward(...) -> xys, depths, radii, conics, compensation, num_tiles_hit
project_gaussians_forward(args) ==
    << KernelOut("xys", args), KernelOut("depths", args), KernelOut("radii", args),
       KernelOut("conics", args), KernelOut("compensation", args),
       KernelOut("num_tiles_hit", args) >>

\* _C.project_gaussians_backward(...) -> v_cov2d, v_cov3d, v_mean3d
project_gaussians_backward(args) ==
    << KernelOut("v_cov2d", args), KernelOut("v_cov3d", args), KernelOut("v_mean3d", args) >>

----------------------------------------------------------------------------
(* Outcomes of a call *)

NoError == [type |-> "none"]
NoOutput == <<>>
NoCtx == [no_ctx |-> TRUE]

Outcome(err, out, ctx, trace, kernel) ==
    [err |-> err, out |-> out, ctx |-> ctx, trace |-> trace, kernel |-> kernel]

Raise(err, trace) == Outcome(err, NoOutput, NoCtx, trace, <<>>)

----------------------------------------------------------------------------
(* _ProjectGaussians.forward *)

\* `a` holds the arguments: means3d, cov3d_triu, viewmat, fx, fy, cx, cy,
\* img_height, img_width, block_width, clip_thresh
forward(a) ==
    IF Len(a.means3d.shape) < 2
    THEN \* means3d.shape[-2] does not exist
         Raise([type |-> "IndexError", msg |-> "tuple index out of range"],
               <<"shape[-2]">>)
    ELSE
    LET num_points == DimFromEnd(a.means3d.shape, 2)
    IN  IF num_points < 1 \/ DimFromEnd(a.means3d.shape, 1) # 3
        THEN Raise([type |-> "ValueError", msg |-> "Invalid shape for means3d",
                    shape |-> a.means3d.shape],
                   <<"shape[-2]", "check_shape">>)
        ELSE
        LET kargs == << num_points, a.means3d, a.cov3d_triu, a.viewmat, a.fx, a.fy,
                        a.cx, a.cy, a.img_height, a.img_width, a.block_width,
                        a.clip_thresh >>
            kout == project_gaussians_forward(kargs)
            radii == kout[3]
            conics == kout[4]
            compensation == kout[5]
            ctx == [img_height |-> a.img_height,
                    img_width |-> a.img_width,
                    num_points |-> num_points,
                    fx |-> a.fx, fy |-> a.fy, cx |-> a.cx, cy |-> a.cy,
                    saved_tensors |-> << a.means3d, a.viewmat, a.cov3d_triu,
                                         radii, conics, compensation >>]
        IN  Outcome(NoError,
                    << kout[1], kout[2], radii, conics, compensation, kout[6] >>,
                    ctx,
                    <<"shape[-2]", "check_shape", "project_gaussians_forward",
                      "save_for_backward">>,
                    kargs)

----------------------------------------------------------------------------
(* project_gaussians_given_cov3d *)

\* `a` holds the arguments: means3d, cov3d, viewmat, fx, fy, cx, cy,
\* img_height, img_width, block_width, clip_thresh
project_gaussians_given_cov3d(a) ==
    LET cov3d_triu == pack_cov3d_triu(a.cov3d)
        r == forward([means3d |-> contiguous(a.means3d),
                      cov3d_triu |-> cov3d_triu,
                      viewmat |-> contiguous(a.viewmat),
                      fx |-> a.fx, fy |-> a.fy, cx |-> a.cx, cy |-> a.cy,
                      img_height |-> a.img_height, img_width |-> a.img_width,
                      block_width |-> a.block_width, clip_thresh |-> a.clip_thresh])
    IN  IF r.err.type # "none"
        THEN [r EXCEPT !.trace = <<"pack_cov3d_triu">> \o @]
        ELSE [r EXCEPT !.trace = <<"pack_cov3d_triu">> \o @,
                       !.out = << @[1], @[2], @[3], @[4], @[5], @[6], a.cov3d >>]

----------------------------------------------------------------------------
(* project_gaussians *)

\* quats.norm(dim=-1), in units of 1e-7
QuatNorms(quats) == [k \in 1..Len(quats.data) |-> quats.data[k].norm]

\* a slip: the focal lengths handed on in the wrong order
GivenArgsSwapped(a, cov3d) ==
    [means3d |-> a.means3d, cov3d |-> cov3d, viewmat |-> a.viewmat,
     fx |-> a.fy, fy |-> a.fx, cx |-> a.cx, cy |-> a.cy,
     img_height |-> a.img_height, img_width |-> a.img_width,
     block_width |-> a.block_width, clip_thresh |-> a.clip_thresh]

\* the argument list of the call at the end of project_gaussians
GivenArgs(a, cov3d) ==
    [means3d |-> a.means3d, cov3d |-> cov3d, viewmat |-> a.viewmat,
     fx |-> a.fx, fy |-> a.fy, cx |-> a.cx, cy |-> a.cy,
     img_height |-> a.img_height, img_width |-> a.img_width,
     block_width |-> a.block_width, clip_thresh |-> a.clip_thresh]

\* `a` holds the arguments: means3d, scales, glob_scale, quats, viewmat, fx, fy,
\* cx, cy, img_height, img_width, block_width, clip_thresh
project_gaussians(a) ==
    IF ~(a.block_width > BlockWidthLow /\ a.block_width <= BlockWidthHigh)
    THEN Raise([type |-> "AssertionError",
                msg |-> "block_width must be between 2 and 16"],
               <<"check_block_width">>)
    ELSE IF ~(\A k \in 1..Len(QuatNorms(a.quats)) : QuatNorms(a.quats)[k] - FixedOne < QuatTol)
    THEN Raise([type |-> "AssertionError", msg |-> "quats must be normalized"],
               <<"check_block_width", "check_quats">>)
    ELSE LET cov3d == scale_rot_to_cov3d(a.scales, a.glob_scale, a.quats)
             r == project_gaussians_given_cov3d(GivenArgs(a, cov3d))
         IN  [r EXCEPT !.trace =
                  <<"check_block_width", "check_quats", "scale_rot_to_cov3d">> \o @]

----------------------------------------------------------------------------
(* Inputs of the entry points *)

Shapes == UNION {[1..r -> 0..MaxDim] : r \in 0..MaxRank}

Means3dOf(shape) == Tensor(shape, [i \in 1..NumEl(shape) |-> i], FALSE)

\* a quaternion is its direction d (an integer 4-vector) and its norm in 1e-7
Quaternions ==
    { [d |-> <<0, 0, 0, 0>>, norm |-> 0],
      [d |-> <<1, 0, 0, 0>>, norm |-> FixedOne - QuatTol - 1],
      [d |-> <<1, 0, 0, 0>>, norm |-> FixedOne],
      [d |-> <<1, 1, 0, 0>>, norm |-> FixedOne + QuatTol - 1],
      [d |-> <<1, 0, 0, 0>>, norm |-> FixedOne + QuatTol + 1] }

QuatBatches ==
    UNION { {Tensor(<<n, 4>>, q, FALSE) : q \in [1..n -> Quaternions]} : n \in 1..MaxPoints }

ScalesFor(n) == Tensor(<<n, 3>>, [i \in 1..(3 * n) |-> ((i - 1) % 3) + 1], FALSE)

Cov3dInputs ==
    { Tensor(<<1, 3, 3>>, <<4, 1, 2, 1, 5, 3, 2, 3, 6>>, FALSE),
      Tensor(<<1, 3, 3>>, <<4, 1, 2, 7, 5, 3, 8, 9, 6>>, FALSE),
      Tensor(<<2, 3, 3>>, <<1, 0, 0, 0, 1, 0, 0, 0, 1, 4, 1, 2, 1, 5, 3, 2, 3, 6>>, FALSE) }

ViewIdentity == <<1, 0, 0, 0, 0, 1, 0, 0, 0, 0, 1, 0, 0, 0, 0, 1>>

BlockWidths ==
    {-1, 0, BlockWidthLow, BlockWidthLow + 1, BlockWidthHigh, BlockWidthHigh + 1}

PGArgs(shape, quats, block_width) ==
    [means3d |-> Means3dOf(shape), scales |-> ScalesFor(Len(quats.data)),
     glob_scale |-> 2, quats |-> quats,
     viewmat |-> Tensor(<<4, 4>>, ViewIdentity, FALSE),
     fx |-> 10, fy |-> 20, cx |-> 3, cy |-> 4, img_height |-> 32, img_width |-> 48,
     block_width |-> block_width, clip_thresh |-> 1]

GivenCov3dArgs(shape, cov3d, block_width) ==
    [means3d |-> Means3dOf(shape), cov3d |-> cov3d,
     viewmat |-> Tensor(<<4, 4>>, ViewIdentity, FALSE),
     fx |-> 10, fy |-> 20, cx |-> 3, cy |-> 4, img_height |-> 32, img_width |-> 48,
     block_width |-> block_width, clip_thresh |-> 1]

NotRun == Outcome(NoError, NoOutput, NoCtx, <<>>, <<>>)

NoCall == [op |-> "none", args |-> <<>>, status |-> "none", outcome |-> NotRun]
NoBackward == [ctx |-> 0]
NoTensor == Tensor(<<>>, <<>>, FALSE)

----------------------------------------------------------------------------
(* The entry points, each called once on inputs it draws *)

InitCall ==
    /\ call = NoCall
    /\ ctxs = <<>>
    /\ fwdLog = <<>>
    /\ bwd = NoBackward
    /\ packIn = NoTensor
    /\ packOut = NoTensor

CallProjectGaussians ==
    /\ call = NoCall
    /\ \E shape \in Shapes, quats \in QuatBatches, block_width \in BlockWidths :
          LET a == PGArgs(shape, quats, block_width)
          IN  call' = [op |-> "project_gaussians", args |-> a, status |-> "done",
                       outcome |-> project_gaussians(a)]
    /\ UNCHANGED <<ctxs, fwdLog, bwd, packIn, packOut>>

CallProjectGaussiansGivenCov3d ==
    /\ call = NoCall
    /\ \E shape \in Shapes, cov3d \in Cov3dInputs, block_width \in BlockWidths :
          LET a == GivenCov3dArgs(shape, cov3d, block_width)
          IN  call' = [op |-> "project_gaussians_given_cov3d", args |-> a,
                       status |-> "done",
                       outcome |-> project_gaussians_given_cov3d(a)]
    /\ UNCHANGED <<ctxs, fwdLog, bwd, packIn, packOut>>

NextCall == CallProjectGaussians \/ CallProjectGaussiansGivenCov3d

SpecCall == InitCall /\ [][NextCall]_vars

----------------------------------------------------------------------------
(* Properties of the entry points (checked under SpecCall) *)

CallDone == call.status = "done"
IsPG == call.op = "project_gaussians"
IsGivenCov3d == call.op = "project_gaussians_given_cov3d"

Ran(step) == \E i \in 1..Len(call.outcome.trace) : call.outcome.trace[i] = step

\* the spec's InvalidInput: the assertion failures and the shape ValueError
InvalidInput(err) == err.type \in {"AssertionError", "ValueError"}

BlockWidthInRange(b) == b >= 2 /\ b <= 16

\* a quaternion norm further than 1e-6 from 1, on either side
NonUnit(norm) == norm > FixedOne + QuatTol \/ norm < FixedOne - QuatTol

HasNonUnitQuat(quats) == \E k \in 1..Len(quats.data) : NonUnit(quats.data[k].norm)

\* N < 1, or last dimension not 3, or fewer than two dimensions
BadShape(shape) ==
    \/ Len(shape) < 2
    \/ shape[Len(shape) - 1] < 1
    \/ shape[Len(shape)] # 3

\* C1: at both entry points a block_width outside [2,16] fails with InvalidInput
\* and the forward kernel is never invoked; a block_width inside [2,16] is not
\* rejected on account of block_width.  (Stated on calls whose means3d shape is
\* valid, so that block_width is the only thing that can be rejected.)
C1_BlockWidthRejectedEverywhere ==
    (CallDone /\ ~BadShape(call.args.means3d.shape)) =>
        /\ ~BlockWidthInRange(call.args.block_width) =>
               /\ InvalidInput(call.outcome.err)
               /\ ~Ran("project_gaussians_forward")
        /\ BlockWidthInRange(call.args.block_width) =>
               ~(/\ call.outcome.err.type = "AssertionError"
                 /\ call.outcome.err.msg = "block_width must be between 2 and 16")

\* C2: project_gaussians rejects with InvalidInput every batch holding a
\* quaternion whose norm is further than 1e-6 from 1 in either direction, and
\* accepts every batch whose norms are all within 1e-6 of 1.  (Stated on calls
\* whose block_width and means3d shape are valid.)
C2_NonUnitQuatRejected ==
    (/\ CallDone /\ IsPG
     /\ BlockWidthInRange(call.args.block_width)
     /\ ~BadShape(call.args.means3d.shape)) =>
        /\ HasNonUnitQuat(call.args.quats) => InvalidInput(call.outcome.err)
        /\ ~HasNonUnitQuat(call.args.quats) => call.outcome.err.type = "none"

\* C3: whenever forward is entered with N < 1, a last dimension other than 3, or
\* fewer than two dimensions, it raises the ValueError naming the shape, the
\* kernel is not invoked and nothing is saved; with N >= 1 and last dimension 3
\* the shape check passes.  (Stated on calls that reach forward with unit
\* quaternions.)
C3_BadShapeIsValueError ==
    (/\ CallDone /\ Ran("shape[-2]")
     /\ IsPG => ~HasNonUnitQuat(call.args.quats)) =>
        /\ BadShape(call.args.means3d.shape) =>
               /\ call.outcome.err.type = "ValueError"
               /\ call.outcome.err.shape = call.args.means3d.shape
               /\ ~Ran("project_gaussians_forward")
               /\ ~Ran("save_for_backward")
               /\ call.outcome.ctx = NoCtx
        /\ ~BadShape(call.args.means3d.shape) => call.outcome.err.type = "none"

HasUnderNormQuat(quats) ==
    \E k \in 1..Len(quats.data) : quats.data[k].norm < FixedOne - QuatTol

HasInvalidInput ==
    \/ BadShape(call.args.means3d.shape)
    \/ ~BlockWidthInRange(call.args.block_width)
    \/ (IsPG /\ HasNonUnitQuat(call.args.quats))

\* C4: every InvalidInput condition (bad means3d shape, non-unit quaternion,
\* out-of-range block_width) is detected before any per-primitive work: the call
\* fails with InvalidInput, neither covariance building, covariance packing nor
\* the forward kernel has run, and no output is produced.  (Stated on calls the
\* checks of C1, C2 and C3 do reach: block_width in range, no quaternion below
\* unit norm, means3d of at least two dimensions.)
C4_InvalidInputDetectedEagerly ==
    (/\ CallDone /\ HasInvalidInput
     /\ BlockWidthInRange(call.args.block_width)
     /\ Len(call.args.means3d.shape) >= 2
     /\ IsPG => ~HasUnderNormQuat(call.args.quats)) =>
        /\ InvalidInput(call.outcome.err)
        /\ ~Ran("scale_rot_to_cov3d")
        /\ ~Ran("pack_cov3d_triu")
        /\ ~Ran("project_gaussians_forward")
        /\ call.outcome.out = NoOutput

----------------------------------------------------------------------------
(* pack_cov3d_triu applied to one covariance tensor *)

InitPack ==
    /\ packIn = NoTensor
    /\ packOut = NoTensor
    /\ call = NoCall
    /\ ctxs = <<>>
    /\ fwdLog = <<>>
    /\ bwd = NoBackward

Pack ==
    /\ packIn = NoTensor
    /\ \E shape \in {<<3, 3>>, <<1, 3, 3>>}, data \in [1..9 -> 0..MaxEntry] :
          LET cov3d == Tensor(shape, data, FALSE)
          IN  /\ packIn' = cov3d
              /\ packOut' = pack_cov3d_triu(cov3d)
    /\ UNCHANGED <<call, ctxs, fwdLog, bwd>>

NextPack == Pack

SpecPack == InitPack /\ [][NextPack]_vars

Packed == packOut # NoTensor

\* M[i][j] of the matrix handed in (i, j from 0)
M(i, j) == packIn.data[3 * i + j + 1]

Symmetric == \A i \in 0..2 : \A j \in 0..2 : M(i, j) = M(j, i)

\* the full symmetric matrix (row-major) rebuilt from xx, xy, xz, yy, yz, zz
Unpack(t) == << t[1], t[2], t[3], t[2], t[4], t[5], t[3], t[5], t[6] >>

\* the matrix handed in, its three below-diagonal entries replaced
WithLower(low) ==
    [packIn EXCEPT !.data = [@ EXCEPT ![4] = low[1], ![7] = low[2], ![8] = low[3]]]

\* C5: pack_cov3d_triu maps M to (M[0][0], M[0][1], M[0][2], M[1][1], M[1][2],
\* M[2][2]) in that order; for symmetric M rebuilding the symmetric matrix from
\* the packed tuple gives M again; and packing reads only the upper triangle.
C5_PackOrderRoundTripUpperOnly ==
    Packed =>
        /\ packOut.data = << M(0, 0), M(0, 1), M(0, 2), M(1, 1), M(1, 2), M(2, 2) >>
        /\ Symmetric => Unpack(packOut.data) = packIn.data
        /\ \A low \in [1..3 -> 0..MaxEntry] : pack_cov3d_triu(WithLower(low)) = packOut

\* C5 witness: a packed symmetric matrix whose off-diagonal entries differ from
\* each other and from the diagonal next to them
C5_Witness ==
    /\ Packed /\ Symmetric
    /\ M(0, 1) = 1 /\ M(0, 2) = 0 /\ M(1, 1) = 0 /\ M(1, 2) = 1 /\ M(2, 2) = 0
    /\ Unpack(packOut.data) = packIn.data

----------------------------------------------------------------------------
(* _ProjectGaussians.backward *)

\* a slip: viewmat and cov3d_triu unpacked in the wrong order
RestoreSavedSwapped(ctx) ==
    [means3d |-> ctx.saved_tensors[1],
     viewmat |-> ctx.saved_tensors[3],
     cov3d_triu |-> ctx.saved_tensors[2],
     radii |-> ctx.saved_tensors[4],
     conics |-> ctx.saved_tensors[5],
     compensation |-> ctx.saved_tensors[6]]

\* (means3d, viewmat, cov3d_triu, radii, conics, compensation) = ctx.saved_tensors
RestoreSaved(ctx) ==
    [means3d |-> ctx.saved_tensors[1],
     viewmat |-> ctx.saved_tensors[2],
     cov3d_triu |-> ctx.saved_tensors[3],
     radii |-> ctx.saved_tensors[4],
     conics |-> ctx.saved_tensors[5],
     compensation |-> ctx.saved_tensors[6]]

\* a slip: v_radii handed to the kernel where v_depths belongs
BackwardKernelArgsRadii(ctx, s, g) ==
    << ctx.num_points, s.means3d, s.cov3d_triu, s.viewmat, ctx.fx, ctx.fy, ctx.cx,
       ctx.cy, ctx.img_height, ctx.img_width, s.radii, s.conics, s.compensation,
       g.v_xys, g.v_radii, g.v_conics, g.v_compensation >>

\* the argument list of _C.project_gaussians_backward
BackwardKernelArgs(ctx, s, g) ==
    << ctx.num_points, s.means3d, s.cov3d_triu, s.viewmat, ctx.fx, ctx.fy, ctx.cx,
       ctx.cy, ctx.img_height, ctx.img_width, s.radii, s.conics, s.compensation,
       g.v_xys, g.v_depths, g.v_conics, g.v_compensation >>

\* v_viewmat: zeros_like(viewmat) when viewmat.requires_grad (the rest of the
\* computation is elided in the source), else None
ViewmatGrad(viewmat) ==
    IF viewmat.requires_grad THEN zeros_like(viewmat) ELSE None

\* a slip: the 2D-covariance gradient returned for cov3d_triu
BackwardReturnCov2d(kout, v_viewmat) ==
    << kout[3], kout[1], v_viewmat, None, None, None, None, None, None, None, None >>

\* kout = (v_cov2d, v_cov3d, v_mean3d); one gradient for each input of forward
BackwardReturn(kout, v_viewmat) ==
    << kout[3], kout[2], v_viewmat, None, None, None, None, None, None, None, None >>

\* g holds v_xys, v_depths, v_radii, v_conics, v_compensation, v_num_tiles_hit
backward(ctx, g) ==
    LET s == RestoreSaved(ctx)
        kargs == BackwardKernelArgs(ctx, s, g)
        kout == project_gaussians_backward(kargs)
        v_viewmat == ViewmatGrad(s.viewmat)
    IN  [kernel_args |-> kargs, kernel_out |-> kout,
         result |-> BackwardReturn(kout, v_viewmat)]

----------------------------------------------------------------------------
(* Forward invocations and their backward passes, in any order *)

ViewOther == <<0, 1, 0, 5, 1, 0, 0, 6, 0, 0, 1, 7, 0, 0, 0, 1>>

Viewmats ==
    { Tensor(<<4, 4>>, ViewIdentity, TRUE), Tensor(<<4, 4>>, ViewOther, TRUE),
      Tensor(<<4, 4>>, ViewOther, FALSE) }

\* everything forward receives but the view matrix
Scenes ==
    { [means3d |-> Tensor(<<1, 3>>, <<1, 2, 3>>, TRUE),
       cov3d_triu |-> Tensor(<<1, 6>>, <<4, 1, 2, 5, 3, 6>>, TRUE),
       fx |-> 10, fy |-> 20, cx |-> 3, cy |-> 4, img_height |-> 32, img_width |-> 48,
       block_width |-> 16, clip_thresh |-> 1],
      [means3d |-> Tensor(<<2, 3>>, <<7, 8, 9, 1, 2, 3>>, TRUE),
       cov3d_triu |-> Tensor(<<2, 6>>, <<1, 0, 0, 1, 0, 1, 9, 8, 7, 9, 8, 9>>, TRUE),
       fx |-> 11, fy |-> 21, cx |-> 5, cy |-> 6, img_height |-> 64, img_width |-> 96,
       block_width |-> 2, clip_thresh |-> 2],
      [means3d |-> Tensor(<<0, 3>>, <<>>, TRUE),
       cov3d_triu |-> Tensor(<<0, 6>>, <<>>, TRUE),
       fx |-> 12, fy |-> 22, cx |-> 7, cy |-> 8, img_height |-> 16, img_width |-> 24,
       block_width |-> 8, clip_thresh |-> 1] }

\* the values an incoming gradient takes (each stands for a tensor)
GradValues == 0..(6 * MaxGrad + 6)

\* incoming gradients that differ from one output to the next
GradBundle(b) ==
    [v_xys |-> 6 * b + 1, v_depths |-> 6 * b + 2, v_radii |-> 6 * b + 3,
     v_conics |-> 6 * b + 4, v_compensation |-> 6 * b + 5,
     v_num_tiles_hit |-> 6 * b + 6]

ZeroGrads ==
    [v_xys |-> 0, v_depths |-> 0, v_radii |-> 0, v_conics |-> 0,
     v_compensation |-> 0, v_num_tiles_hit |-> 0]

Grads == {ZeroGrads} \cup {GradBundle(b) : b \in 0..MaxGrad}

InitGrad ==
    /\ ctxs = <<>>
    /\ fwdLog = <<>>
    /\ bwd = NoBackward
    /\ call = NoCall
    /\ packIn = NoTensor
    /\ packOut = NoTensor

\* _ProjectGaussians.apply(...): forward runs and, unless it raises, its context
\* is kept for the backward pass
Forward ==
    /\ Len(ctxs) < MaxCtx
    /\ \E scene \in Scenes, viewmat \in Viewmats :
          LET a == [viewmat |-> viewmat] @@ scene
              r == forward(a)
          IN  IF r.err.type = "none"
              THEN /\ ctxs' = Append(ctxs, r.ctx)
                   /\ fwdLog' = Append(fwdLog, [args |-> a, kernel |-> r.kernel,
                                                out |-> r.out])
              ELSE UNCHANGED <<ctxs, fwdLog>>
    /\ UNCHANGED <<bwd, call, packIn, packOut>>

\* the backward pass of the i-th forward invocation
Backward ==
    /\ \E i \in 1..Len(ctxs), g \in Grads :
          bwd' = [ctx |-> i, grads |-> g] @@ backward(ctxs[i], g)
    /\ UNCHANGED <<ctxs, fwdLog, call, packIn, packOut>>

NextGrad == Forward \/ Backward

SpecGrad == InitGrad /\ [][NextGrad]_vars

----------------------------------------------------------------------------
(* Properties of the backward pass (checked under SpecGrad) *)

BackwardDone == bwd.ctx # 0

\* what the forward invocation behind the last backward pass received and produced
Fwd == fwdLog[bwd.ctx]

IsNone(v) == v = None

\* C6: backward returns a view-matrix gradient exactly when viewmat.requires_grad:
\* None when it is false; when it is true a 4x4 gradient that is determined by
\* the incoming output gradients and saved intermediates, not a constant.
C6_ViewmatGradIsAdjoint ==
    BackwardDone =>
        /\ Fwd.args.viewmat.requires_grad <=> ~IsNone(bwd.result[3])
        /\ Fwd.args.viewmat.requires_grad =>
               /\ bwd.result[3].shape = <<4, 4>>
               /\ \E g \in Grads :
                      backward(ctxs[bwd.ctx], g).result[3] # bwd.result[3]

\* C7: two backward calls on the same saved forward state that agree on v_xys,
\* v_depths, v_conics and v_compensation but differ in v_radii and
\* v_num_tiles_hit hand the kernel the same arguments and return the same
\* gradients.
C7_NoGradientThroughRadiiOrTiles ==
    BackwardDone =>
        \A r \in GradValues, t \in GradValues :
            backward(ctxs[bwd.ctx],
                     [bwd.grads EXCEPT !.v_radii = r, !.v_num_tiles_hit = t])
              = [kernel_args |-> bwd.kernel_args, kernel_out |-> bwd.kernel_out,
                 result |-> bwd.result]

\* C7 witness: a backward pass whose v_radii and v_num_tiles_hit are not zero
C7_Witness ==
    /\ BackwardDone
    /\ bwd.grads.v_radii # 0
    /\ bwd.grads.v_num_tiles_hit # 0
    /\ bwd.grads.v_radii # bwd.grads.v_depths

\* C9: each backward pass calls the backward kernel with the values of its own
\* forward invocation: num_points, means3d, cov3d_triu, viewmat, fx, fy, cx, cy,
\* img_height, img_width as forward received them, then the radii, conics and
\* compensation the forward kernel returned, each in its position, followed by
\* v_xys, v_depths, v_conics, v_compensation.
C9_BackwardUsesOwnForwardValues ==
    BackwardDone =>
        /\ Fwd.kernel[1] = DimFromEnd(Fwd.args.means3d.shape, 2)
        /\ bwd.kernel_args =
               << Fwd.kernel[1], Fwd.args.means3d, Fwd.args.cov3d_triu,
                  Fwd.args.viewmat, Fwd.args.fx, Fwd.args.fy, Fwd.args.cx,
                  Fwd.args.cy, Fwd.args.img_height, Fwd.args.img_width,
                  Fwd.out[3], Fwd.out[4], Fwd.out[5],
                  bwd.grads.v_xys, bwd.grads.v_depths, bwd.grads.v_conics,
                  bwd.grads.v_compensation >>
        /\ Fwd.out[3].kernel_output = "radii"
        /\ Fwd.out[4].kernel_output = "conics"
        /\ Fwd.out[5].kernel_output = "compensation"

\* C9 witness: the backward pass of the first of two forward invocations that
\* differ in every argument, run after the second forward
C9_Witness ==
    /\ BackwardDone
    /\ bwd.ctx = 1
    /\ Len(ctxs) >= 2
    /\ fwdLog[1].args.means3d # fwdLog[2].args.means3d
    /\ fwdLog[1].args.viewmat # fwdLog[2].args.viewmat
    /\ fwdLog[1].args.fx # fwdLog[2].args.fx

====
